---------------------------- MODULE Spec2Model ----------------------------
(***************************************************************************)
(* Model of raindrops-to-obsidian-clipper.py: the Raindrops CSV to         *)
(* Obsidian Web Clipper markdown converter.                                *)
(*                                                                         *)
(* A Python str is a sequence of one-character strings; a character        *)
(* outside ASCII is written by its code point ("U+00E9").  None is the     *)
(* Python None and a raised exception are the one-element and two-element  *)
(* sequences <<"<None>">> and <<"<raise>", type>>, which no str equals.    *)
(***************************************************************************)
EXTENDS Integers, Sequences, FiniteSets, TLC

VARIABLES
    \* the call of one pure function: its argument, what it returned, which one
    arg, ret, called,
    \* a run of main / convert_csv_to_markdown
    pc,                 \* position in the run
    entry,              \* "main" (command line) or "convert" (direct call)
    source,             \* the input file
    files0,             \* the output directory before the run
    files,              \* the output directory: file name -> content
    idx,                \* the reader's position: rows delivered so far
    successful_conversions, failed_conversions, created_files,
    outcomes,           \* per delivered row: what the per-record step did
    result,             \* what convert_csv_to_markdown returned
    exit_code           \* the statuses main passed to sys.exit: none or one

fnVars  == <<arg, ret, called>>
runVars == <<pc, entry, source, files0, files, idx, successful_conversions,
             failed_conversions, created_files, outcomes, result, exit_code>>
vars    == <<arg, ret, called, pc, entry, source, files0, files, idx,
             successful_conversions, failed_conversions, created_files,
             outcomes, result, exit_code>>

None == <<"<None>">>
Raise(type) == <<"<raise>", type>>
IsRaised(v) == v # <<>> /\ v[1] = "<raise>"

-----------------------------------------------------------------------------
(* Bounds of the model *)

MaxTitleLen == 3        \* characters of a title pattern
LongRepeat == 126       \* repetitions of the pattern in a long title
MaxTags == 3            \* comma-separated pieces of a raw tags string
MaxHostTokens == 3      \* tokens of a URL's authority
MaxRows == 3            \* rows of an input table
MaxPartial == 1         \* characters a failed write may leave behind

-----------------------------------------------------------------------------
(* str primitives *)

Whitespace == {" ", "\t", "\n"}
UpperCase == <<"A","B","C","D","E","F","G","H","I","J","K","L","M",
               "N","O","P","Q","R","S","T","U","V","W","X","Y","Z">>
LowerCase == <<"a","b","c","d","e","f","g","h","i","j","k","l","m",
               "n","o","p","q","r","s","t","u","v","w","x","y","z">>
Digits == {"0","1","2","3","4","5","6","7","8","9"}
Range(s) == {s[i] : i \in DOMAIN s}
\* characters matched by \w: ASCII letters, digits, underscore, and the
\* alphanumerics outside ASCII (here: e acute)
WordChars == Range(UpperCase) \cup Range(LowerCase) \cup Digits \cup {"_", "U+00E9"}

Min(S) == CHOOSE x \in S : \A y \in S : x <= y
Max(S) == CHOOSE x \in S : \A y \in S : x >= y

isspace(c) == c \in Whitespace

\* str.strip()
strip(s) ==
    LET keep == {i \in 1..Len(s) : ~isspace(s[i])}
    IN  IF keep = {} THEN <<>> ELSE SubSeq(s, Min(keep), Max(keep))

\* str.rstrip()
rstrip(s) ==
    LET keep == {i \in 1..Len(s) : ~isspace(s[i])}
    IN  IF keep = {} THEN <<>> ELSE SubSeq(s, 1, Max(keep))

\* str.lower(), one character
lower_char(c) ==
    IF \E i \in 1..Len(UpperCase) : UpperCase[i] = c
    THEN LowerCase[CHOOSE i \in 1..Len(UpperCase) : UpperCase[i] = c]
    ELSE c

\* str.lower()
lower(s) == [i \in 1..Len(s) |-> lower_char(s[i])]

\* str.replace(old, new), old non-empty: leftmost non-overlapping occurrences
RECURSIVE replace(_, _, _)
replace(s, old, new) ==
    IF Len(s) < Len(old) THEN s
    ELSE IF SubSeq(s, 1, Len(old)) = old
         THEN new \o replace(SubSeq(s, Len(old) + 1, Len(s)), old, new)
         ELSE <<s[1]>> \o replace(Tail(s), old, new)

\* str.split(sep), sep one character
RECURSIVE split(_, _)
split(s, sep) ==
    LET at == {i \in 1..Len(s) : s[i] = sep}
    IN  IF at = {} THEN <<s>>
        ELSE <<SubSeq(s, 1, Min(at) - 1)>>
             \o split(SubSeq(s, Min(at) + 1, Len(s)), sep)

\* sep.join(parts)
RECURSIVE join(_, _)
join(parts, sep) ==
    IF parts = <<>> THEN <<>>
    ELSE IF Len(parts) = 1 THEN parts[1]
    ELSE parts[1] \o sep \o join(Tail(parts), sep)

\* re.sub(r'[...]', '', s): the characters of s outside the set removed
re_sub_remove(removed, s) ==
    LET Kept(c) == c \notin removed IN SelectSeq(s, Kept)

\* re.sub(r'\s+', ' ', s): each run of whitespace becomes one space
re_sub_collapse_ws(s) ==
    LET ix == [i \in 1..Len(s) |-> i]
        First(i) == ~isspace(s[i]) \/ i = 1 \/ ~isspace(s[i - 1])
        kept == SelectSeq(ix, First)
    IN  [j \in 1..Len(kept) |-> IF isspace(s[kept[j]]) THEN " " ELSE s[kept[j]]]

-----------------------------------------------------------------------------
(* sanitize_filename *)

Untitled == <<"U","n","t","i","t","l","e","d">>
ReservedChars == {"<", ">", ":", "\"", "/", "\\", "|", "?", "*"}
AllowedPunct == {"-", "_", ".", ",", "(", ")", "[", "]", "{", "}",
                 "#", "@", "&", "+", "=", "!", "~"}
FilenameLimit == 250

\* a faulty variant: the length limit is not applied
sanitize_filename_nolimit(title) ==
    IF title = None \/ title = <<>> \/ strip(title) = <<>> THEN Untitled
    ELSE LET f1 == re_sub_remove(ReservedChars, title)
             f2 == SelectSeq(f1, LAMBDA c : c \in WordChars \cup Whitespace \cup AllowedPunct)
             f3 == strip(re_sub_collapse_ws(f2))
         IN  IF f3 # <<>> THEN f3 ELSE Untitled

sanitize_filename(title) ==
    IF title = None \/ title = <<>> \/ strip(title) = <<>> THEN Untitled
    ELSE LET f1 == re_sub_remove(ReservedChars, title)
             f2 == SelectSeq(f1, LAMBDA c : c \in WordChars \cup Whitespace \cup AllowedPunct)
             f3 == strip(re_sub_collapse_ws(f2))
             f4 == IF Len(f3) > FilenameLimit
                   THEN rstrip(SubSeq(f3, 1, FilenameLimit))
                   ELSE f3
         IN  IF f4 # <<>> THEN f4 ELSE Untitled

-----------------------------------------------------------------------------
(* extract_domain *)

L_www == <<"w","w","w",".">>
SchemeChars == Range(UpperCase) \cup Range(LowerCase) \cup Digits \cup {"+", "-", "."}
NetlocEnd == {"/", "?", "#"}

\* str.lstrip()
lstrip(s) ==
    LET keep == {i \in 1..Len(s) : ~isspace(s[i])}
    IN  IF keep = {} THEN <<>> ELSE SubSeq(s, Min(keep), Len(s))

\* urlparse(url).netloc (urllib.parse.urlsplit): leading whitespace and
\* embedded tab/newline dropped, a scheme split off at the first colon, and
\* after "//" the authority up to the first of / ? #; unbalanced brackets
\* raise ValueError
urlparse_netloc(url) ==
    LET u0 == re_sub_remove({"\t", "\n"}, lstrip(url))
        colons == {i \in 1..Len(u0) : u0[i] = ":"}
        i == IF colons = {} THEN 0 ELSE Min(colons)
        hasScheme == /\ i > 1
                     /\ u0[1] \in Range(UpperCase) \cup Range(LowerCase)
                     /\ \A k \in 1..(i - 1) : u0[k] \in SchemeChars
        u1 == IF hasScheme THEN SubSeq(u0, i + 1, Len(u0)) ELSE u0
        ends == {k \in 3..Len(u1) : u1[k] \in NetlocEnd}
        delim == IF ends = {} THEN Len(u1) + 1 ELSE Min(ends)
        netloc == SubSeq(u1, 3, delim - 1)
    IN  IF Len(u1) >= 2 /\ SubSeq(u1, 1, 2) = <<"/", "/">>
        THEN IF ("[" \in Range(netloc)) # ("]" \in Range(netloc))
             THEN Raise("ValueError")
             ELSE netloc
        ELSE <<>>

extract_domain(url) ==
    IF url = None \/ url = <<>> \/ strip(url) = <<>> THEN <<>>
    ELSE LET domain == urlparse_netloc(url)
         IN  IF IsRaised(domain) THEN <<>>              \* except: return ''
             ELSE IF domain # <<>> THEN replace(domain, L_www, <<>>) ELSE <<>>

-----------------------------------------------------------------------------
(* format_tags *)

clippings == <<"c","l","i","p","p","i","n","g","s">>
unsorted == <<"u","n","s","o","r","t","e","d">>

\* the loop of lines 95-98: append each tag not yet in unique_tags
RECURSIVE unique_loop(_, _)
unique_loop(tags, unique_tags) ==
    IF tags = <<>> THEN unique_tags
    ELSE unique_loop(Tail(tags),
                     IF tags[1] \in Range(unique_tags) THEN unique_tags
                     ELSE Append(unique_tags, tags[1]))

\* the comprehension of lines 89-91
RECURSIVE existing_tags(_)
existing_tags(pieces) ==
    IF pieces = <<>> THEN <<>>
    ELSE (IF strip(pieces[1]) # <<>>
          THEN <<replace(lower(strip(pieces[1])), <<" ">>, <<"-">>)>>
          ELSE <<>>)
         \o existing_tags(Tail(pieces))

\* a faulty variant: the folder is compared with 'unsorted' without lower-casing
format_tags_case_sensitive(tags_str, folder) ==
    LET tags0 == <<clippings>>
        tags1 == IF folder # None /\ folder # <<>> /\ folder # unsorted
                 THEN Append(tags0, replace(lower(folder), <<" ">>, <<"-">>))
                 ELSE tags0
        tags2 == IF tags_str # None /\ tags_str # <<>> /\ strip(tags_str) # <<>>
                 THEN tags1 \o existing_tags(split(tags_str, ","))
                 ELSE tags1
    IN  unique_loop(tags2, <<>>)

format_tags(tags_str, folder) ==
    LET tags0 == <<clippings>>
        tags1 == IF folder # None /\ folder # <<>> /\ lower(folder) # unsorted
                 THEN Append(tags0, replace(lower(folder), <<" ">>, <<"-">>))
                 ELSE tags0
        tags2 == IF tags_str # None /\ tags_str # <<>> /\ strip(tags_str) # <<>>
                 THEN tags1 \o existing_tags(split(tags_str, ","))
                 ELSE tags1
    IN  unique_loop(tags2, <<>>)

-----------------------------------------------------------------------------
(* format_date *)

L_utc == <<"+","0","0",":","0","0">>
DigitSeq == <<"0","1","2","3","4","5","6","7","8","9">>
digit(c) == (CHOOSE i \in 1..Len(DigitSeq) : DigitSeq[i] = c) - 1
two_digits(s, i) == 10 * digit(s[i]) + digit(s[i + 1])
all_digits(s, from, to) == \A k \in from..to : s[k] \in Digits

\* HH:MM:SS at s[i..i+7]
is_time(s, i) ==
    /\ all_digits(s, i, i + 1) /\ s[i + 2] = ":"
    /\ all_digits(s, i + 3, i + 4) /\ s[i + 5] = ":"
    /\ all_digits(s, i + 6, i + 7)
    /\ two_digits(s, i) <= 23 /\ two_digits(s, i + 3) <= 59
    /\ two_digits(s, i + 6) <= 59

\* +HH:MM at s[i..i+5]
is_offset(s, i) ==
    /\ s[i] \in {"+", "-"}
    /\ all_digits(s, i + 1, i + 2) /\ s[i + 3] = ":"
    /\ all_digits(s, i + 4, i + 5)
    /\ two_digits(s, i + 1) <= 23 /\ two_digits(s, i + 4) <= 59

days_in_month(year, month) ==
    IF month = 2
    THEN IF year % 4 = 0 /\ (year % 100 # 0 \/ year % 400 = 0) THEN 29 ELSE 28
    ELSE IF month \in {4, 6, 9, 11} THEN 30 ELSE 31

\* what datetime.fromisoformat accepts, for the forms YYYY-MM-DD,
\* YYYY-MM-DD?HH:MM:SS and YYYY-MM-DD?HH:MM:SS+HH:MM (? any one character)
fromisoformat_ok(s) ==
    /\ Len(s) \in {10, 19, 25}
    /\ all_digits(s, 1, 4) /\ s[5] = "-" /\ all_digits(s, 6, 7)
    /\ s[8] = "-" /\ all_digits(s, 9, 10)
    /\ 100 * two_digits(s, 1) + two_digits(s, 3) >= 1
    /\ two_digits(s, 6) \in 1..12
    /\ two_digits(s, 9) \in 1..days_in_month(100 * two_digits(s, 1) + two_digits(s, 3),
                                              two_digits(s, 6))
    /\ Len(s) >= 19 => is_time(s, 12)
    /\ Len(s) = 25 => is_offset(s, 20)

format_date(date_str) ==
    IF date_str = None \/ date_str = <<>> \/ strip(date_str) = <<>> THEN <<>>
    ELSE LET iso == replace(date_str, <<"Z">>, L_utc)
         IN  IF fromisoformat_ok(iso)
             THEN SubSeq(iso, 1, 10)        \* strftime('%Y-%m-%d')
             ELSE <<>>                      \* except: return ''

-----------------------------------------------------------------------------
(* create_markdown_content *)

L_dashes == <<"-","-","-">>
L_author == <<"a","u","t","h","o","r",":">>
L_item_q == <<"-"," ","'">>
L_q == <<"'">>
L_lbr == <<"[","[">>
L_rbr == <<"]","]">>
L_created == <<"c","r","e","a","t","e","d",":"," ","'">>
L_description == <<"d","e","s","c","r","i","p","t","i","o","n",":"," ">>
L_published == <<"p","u","b","l","i","s","h","e","d",":"," ","'","'">>
L_source == <<"s","o","u","r","c","e",":"," ">>
L_tags == <<"t","a","g","s",":">>
L_item == <<"-"," ">>
L_title == <<"t","i","t","l","e",":"," ">>
L_summary == <<"#","#"," ","S","u","m","m","a","r","y">>
L_highlights == <<"#","#"," ","H","i","g","h","l","i","g","h","t","s">>
L_h_source == <<"#","#"," ","S","o","u","r","c","e">>
L_view == <<"[","V","i","e","w"," ","O","r","i","g","i","n","a","l","]","(">>
L_rparen == <<")">>

RecognizedFields == {"title", "url", "excerpt", "note", "tags", "folder",
                     "created", "cover", "highlights"}

\* dict.get(key, default)
get(row, key, default) == IF key \in DOMAIN row THEN row[key] ELSE default

\* the lines "- <tag>" of lines 170-171
tag_lines(formatted_tags) == [i \in 1..Len(formatted_tags) |-> L_item \o formatted_tags[i]]

create_markdown_content(row) ==
    \* lines 133-141: None has no strip()
    IF \E k \in RecognizedFields : get(row, k, <<>>) = None
    THEN Raise("AttributeError")
    ELSE
    LET title == strip(get(row, "title", <<>>))
        url == strip(get(row, "url", <<>>))
        excerpt == strip(get(row, "excerpt", <<>>))
        note == strip(get(row, "note", <<>>))
        tags_str == strip(get(row, "tags", <<>>))
        folder == strip(get(row, "folder", <<>>))
        created == strip(get(row, "created", <<>>))
        highlights == strip(get(row, "highlights", <<>>))
        domain == extract_domain(url)
        author == IF domain # <<>> THEN L_lbr \o domain \o L_rbr ELSE <<>>
        formatted_date == format_date(created)
        formatted_tags == format_tags(tags_str, folder)
        escaped_excerpt == replace(replace(excerpt, <<"\"">>, <<"\\", "\"">>),
                                   <<"\n">>, <<" ">>)
        yaml_lines ==
            <<L_dashes>>
            \o (IF author # <<>>
                THEN <<L_author, L_item_q \o author \o L_q>> ELSE <<>>)
            \o (IF formatted_date # <<>>
                THEN <<L_created \o formatted_date \o L_q>> ELSE <<>>)
            \o (IF excerpt # <<>>
                THEN <<L_description \o escaped_excerpt>> ELSE <<>>)
            \o <<L_published>>
            \o (IF url # <<>> THEN <<L_source \o url>> ELSE <<>>)
            \o <<L_tags>>
            \o tag_lines(formatted_tags)
            \o <<L_title \o title>>
            \o <<L_dashes>>
        content_lines ==
            yaml_lines
            \o (IF excerpt # <<>> \/ note # <<>>
                THEN <<<<>>, L_summary, <<>>>>
                     \o (IF excerpt # <<>> THEN <<excerpt>> ELSE <<>>)
                     \o (IF note # <<>>
                         THEN (IF excerpt # <<>> THEN <<<<>>>> ELSE <<>>) \o <<note>>
                         ELSE <<>>)
                ELSE <<>>)
            \o (IF highlights # <<>> /\ strip(highlights) # <<>>
                THEN <<<<>>, L_highlights, <<>>, highlights>> ELSE <<>>)
            \o (IF url # <<>>
                THEN <<<<>>, L_h_source, <<>>, L_view \o url \o L_rparen>> ELSE <<>>)
    IN  join(content_lines, <<"\n">>)

-----------------------------------------------------------------------------
(* The run of main is idle while one pure function is called, and no pure    *)
(* function is called during a run.                                         *)

RunIdle ==
    /\ pc = "idle" /\ entry = "none" /\ source = None
    /\ files0 = <<>> /\ files = <<>> /\ idx = 0
    /\ successful_conversions = 0 /\ failed_conversions = 0
    /\ created_files = <<>> /\ outcomes = <<>>
    /\ result = None /\ exit_code = <<>>

FnIdle == arg = None /\ ret = None /\ called = "none"

SeqsUpTo(S, n) == UNION {[1..k -> S] : k \in 0..n}

\* the concatenation of the sequences of a sequence
RECURSIVE concat(_)
concat(ss) == IF ss = <<>> THEN <<>> ELSE ss[1] \o concat(Tail(ss))

Call(name, value) ==
    /\ called = "none"
    /\ called' = name
    /\ ret' = value
    /\ UNCHANGED <<arg, pc, entry, source, files0, files, idx,
                   successful_conversions, failed_conversions, created_files,
                   outcomes, result, exit_code>>

-----------------------------------------------------------------------------
(* sanitize_filename on every title pattern, once and repeated to beyond    *)
(* the length limit                                                         *)

TitleAlphabet == {"a", " ", "\t", "/", "%", "-", "U+00E9"}
repeat(p, k) == [i \in 1..(Len(p) * k) |-> p[((i - 1) % Len(p)) + 1]]
TitleInputs == {repeat(p, k) : p \in SeqsUpTo(TitleAlphabet, MaxTitleLen),
                               k \in {1, LongRepeat}}

InitSanitize == arg \in TitleInputs /\ ret = None /\ called = "none" /\ RunIdle
CallSanitize == Call("sanitize_filename", sanitize_filename(arg))
SpecSanitize == InitSanitize /\ [][CallSanitize]_vars

\* C2: sanitize_filename is total: for every title the result is a non-empty
\* string of at most 250 characters holding no reserved path character.
C2_SanitizeTotal ==
    called = "sanitize_filename" =>
        /\ ret \in Seq(TitleAlphabet \cup Range(Untitled))
        /\ ret # <<>>
        /\ Len(ret) <= 250
        /\ Range(ret) \cap {"<", ">", ":", "\"", "/", "\\", "|", "?", "*"} = {}

\* a title longer than the limit, holding reserved characters, was sanitized
\* to exactly the limit
C2_Witness ==
    /\ called = "sanitize_filename"
    /\ Len(arg) > 250
    /\ "/" \in Range(arg)
    /\ Len(ret) = 250

-----------------------------------------------------------------------------
(* format_tags on every raw tags string of up to MaxTags comma-separated    *)
(* pieces and every folder of a set                                         *)

S_TechNews == <<"T","e","c","h"," ","N","e","w","s">>
S_tech_news == <<"t","e","c","h","-","n","e","w","s">>
TagPieces == {<<>>, <<"a">>, <<"A"," ","b">>, <<" ","a","\t">>, <<"C","l","i","p","p","i","n","g","s">>, S_tech_news}
TagsInputs == {join(ps, <<",">>) : ps \in SeqsUpTo(TagPieces, MaxTags)}
FolderInputs == {<<>>, <<" ">>, <<"A">>, clippings, unsorted, <<"U","n","s","o","r","t","e","d">>,
                 <<"U","N","S","O","R","T","E","D">>, S_TechNews}

InitTags ==
    /\ arg \in TagsInputs \X FolderInputs
    /\ ret = None /\ called = "none" /\ RunIdle
CallTags == Call("format_tags", format_tags(arg[1], arg[2]))
SpecTags == InitTags /\ [][CallTags]_vars

\* the k-th smallest element of a set of integers
kth(S, k) == CHOOSE x \in S : Cardinality({y \in S : y < x}) = k - 1
\* the pieces of s between its commas, by the commas' positions
comma_pieces(s) ==
    LET cuts == {0, Len(s) + 1} \cup {i \in 1..Len(s) : s[i] = ","}
    IN  [j \in 1..(Cardinality(cuts) - 1) |->
            SubSeq(s, kth(cuts, j) + 1, kth(cuts, j + 1) - 1)]
\* lower-cased, each space a hyphen
hyphen_lower(s) == [i \in 1..Len(s) |-> IF s[i] = " " THEN "-" ELSE lower_char(s[i])]
\* clippings, the folder tag, the user tags: before deduplication
tag_candidates(tags_str, folder) ==
    LET trimmed == [j \in DOMAIN comma_pieces(tags_str) |->
                       strip(comma_pieces(tags_str)[j])]
    IN  <<clippings>>
        \o (IF folder # <<>> /\ lower(folder) # unsorted
            THEN <<hyphen_lower(folder)>> ELSE <<>>)
        \o [j \in DOMAIN SelectSeq(trimmed, LAMBDA x : x # <<>>) |->
               hyphen_lower(SelectSeq(trimmed, LAMBDA x : x # <<>>)[j])]
first_index(L, x) == Min({i \in 1..Len(L) : L[i] = x})

\* C3: format_tags returns pairwise distinct tags, at least one, the first
\* of them clippings and clippings exactly once; the list is the
\* first-occurrence deduplication of clippings, the folder tag (unless the
\* folder is empty or is unsorted in any case), and the non-empty trimmed
\* comma-separated tags, lower-cased with hyphens for spaces, in order.
C3_FormatTags ==
    called = "format_tags" =>
        LET L == tag_candidates(arg[1], arg[2])
        IN  /\ Len(ret) >= 1
            /\ ret[1] = clippings
            /\ \A i, j \in 1..Len(ret) : ret[i] = ret[j] => i = j
            /\ Cardinality({i \in 1..Len(ret) : ret[i] = clippings}) = 1
            /\ Range(ret) = Range(L)
            /\ \A i, j \in 1..Len(ret) :
                   i < j => first_index(L, ret[i]) < first_index(L, ret[j])

\* a folder tag, a duplicate of clippings and a duplicate of the folder tag
C3_Witness ==
    /\ called = "format_tags"
    /\ arg[2] = S_TechNews
    /\ Len(comma_pieces(arg[1])) = 3
    /\ ret = <<clippings, S_tech_news, <<"a","-","b">>>>

-----------------------------------------------------------------------------
(* extract_domain on URLs built of an optional scheme, an optional "//",    *)
(* an authority of up to MaxHostTokens tokens and an optional path          *)

HostTokens == {L_www, <<"a",".">>, <<"c">>, <<"[">>}
UrlInputs ==
    {<<>>, <<" ">>} \cup
    {sch \o sl \o concat(h) \o path :
        sch \in {<<>>, <<"h",":">>}, sl \in {<<>>, <<"/","/">>},
        h \in SeqsUpTo(HostTokens, MaxHostTokens), path \in {<<>>, <<"/","p">>}}

InitDomain == arg \in UrlInputs /\ ret = None /\ called = "none" /\ RunIdle
CallDomain == Call("extract_domain", extract_domain(arg))
SpecDomain == InitDomain /\ [][CallDomain]_vars

\* C8: extract_domain returns the empty string when the URL is empty,
\* whitespace-only, unparsable or without host, and otherwise the host with
\* only a leading www. removed, every other character unchanged.
C8_ExtractDomain ==
    called = "extract_domain" =>
        LET host == IF strip(arg) = <<>> THEN <<>> ELSE urlparse_netloc(arg)
        IN  ret = IF IsRaised(host) \/ host = <<>> THEN <<>>
                  ELSE IF Len(host) >= 4 /\ SubSeq(host, 1, 4) = L_www
                       THEN SubSeq(host, 5, Len(host))
                       ELSE host

-----------------------------------------------------------------------------
(* create_markdown_content on rows of a csv.DictReader: each recognized     *)
(* key is absent (its column is not in the header), None (the row is        *)
(* shorter than the header) or a str                                        *)

Absent == <<"<absent>">>
S_url == <<"h","t","t","p","s",":","/","/","w","w","w",".","a",".","c","/","p">>
RowChoices ==
    [title : {Absent, None, <<>>, <<" ">>, <<"A">>, <<" ","A"," ","b"," ">>},
     url : {Absent, <<>>, S_url},
     excerpt : {<<>>, <<"e"," ","\"","q","\"">>, <<"e","\n","f">>},
     note : {Absent, <<"n">>},
     tags : {<<>>, <<"x",",","Y"," ","z">>},
     folder : {<<>>, S_TechNews},
     created : {<<>>, <<"2","0","2","3","-","0","5","-","0","1","T","1","2",":","0","0",":","0","0","Z">>, <<"g","a","r","b","a","g","e">>},
     cover : {Absent, None},
     highlights : {<<>>, <<"h">>}]
row_of(choice) == [k \in {f \in DOMAIN choice : choice[f] # Absent} |-> choice[k]]
RowInputs == {row_of(c) : c \in RowChoices}

InitDoc == arg \in RowInputs /\ ret = None /\ called = "none" /\ RunIdle
CallDoc == Call("create_markdown_content", create_markdown_content(arg))
SpecDoc == InitDoc /\ [][CallDoc]_vars

\* the last field of the metadata block: the line before the line --- that
\* closes the block
last_metadata_line(document) ==
    LET lines == split(document, "\n")
        closing == Min({i \in 2..Len(lines) : lines[i] = L_dashes})
    IN  lines[closing - 1]

\* C1: the metadata block of every document ends with the field title, its
\* value the trimmed input title, or Untitled when the trimmed title is empty
\* (the key absent or the value whitespace-only included).
C1_TitleField ==
    (called = "create_markdown_content" /\ ~IsRaised(ret)) =>
        LET title == strip(get(arg, "title", <<>>))
        IN  last_metadata_line(ret) =
                L_title \o (IF title = <<>> THEN Untitled ELSE title)

-----------------------------------------------------------------------------
(* The input file and the output directory                                  *)

L_md == <<".","m","d">>

\* csv.DictReader: the row as a dict keyed by the header; a row shorter than
\* the header has None for the missing cells (restval), the cells beyond the
\* header go under the key None, which no get() asks for
dict_row(header, cells) ==
    [k \in Range(header) |->
        LET i == CHOOSE j \in 1..Len(header) : header[j] = k
        IN  IF i <= Len(cells) THEN cells[i] ELSE None]

Headers == {<<"title", "url">>, <<"title">>}
S_A == <<"A">>
CellRows == {<<S_A, <<"h",":","/","/","a">>>>, <<<<"A","?">>, <<>>>>, <<S_A>>}

\* an input file: missing, present but not openable, or a text of a header
\* and rows, whose delimiter the sniffer finds or not, and in which reading
\* fails nowhere, in the leading sample (0) or while row k is read
MissingSource == [kind |-> "missing", header |-> <<>>, rows |-> <<>>,
                  sniff_ok |-> FALSE, read_error |-> {}]
UnopenableSource == [kind |-> "unopenable", header |-> <<>>, rows |-> <<>>,
                     sniff_ok |-> FALSE, read_error |-> {}]
TextSources ==
    {[kind |-> "text", header |-> h, rows |-> rs, sniff_ok |-> sn, read_error |-> e] :
        h \in Headers, rs \in SeqsUpTo(CellRows, MaxRows), sn \in BOOLEAN,
        e \in {{}} \cup {{k} : k \in 0..MaxRows}}
Sources == {MissingSource, UnopenableSource}
           \cup {src \in TextSources : \A k \in src.read_error : k <= Len(src.rows)}

EmptyDir == [n \in {} |-> <<>>]
put(fs, name, content) ==
    [n \in DOMAIN fs \cup {name} |-> IF n = name THEN content ELSE fs[n]]
InitialDirs == {EmptyDir, put(EmptyDir, S_A \o L_md, <<"o","l","d">>)}

\* what the file system does to one record's open and write: both succeed,
\* the open fails, or the write fails leaving the first k characters
IOOutcomes == {<<"ok", 0>>, <<"open_fails", 0>>}
              \cup {<<"write_fails", k>> : k \in 0..MaxPartial}

-----------------------------------------------------------------------------
(* convert_csv_to_markdown and main                                         *)

\* lines 227-239: open, read the sample, sniff the delimiter, read every row
\* once to count them; the number of rows, or what was raised
count_rows_unread(src) ==
    IF src.kind = "missing" THEN Raise("FileNotFoundError")
    ELSE IF src.kind = "unopenable" THEN Raise("OSError")
    ELSE IF 0 \in src.read_error THEN Raise("UnicodeDecodeError")
    ELSE IF ~src.sniff_ok THEN Raise("csv.Error")
    ELSE <<"total_rows", Len(src.rows)>>

count_rows(src) ==
    IF src.kind = "missing" THEN Raise("FileNotFoundError")
    ELSE IF src.kind = "unopenable" THEN Raise("OSError")
    ELSE IF 0 \in src.read_error THEN Raise("UnicodeDecodeError")
    ELSE IF ~src.sniff_ok THEN Raise("csv.Error")
    ELSE IF src.read_error # {} THEN Raise("UnicodeDecodeError")
    ELSE <<"total_rows", Len(src.rows)>>

\* lines 246-252: the file name of a row whose title is a str
file_name(title) ==
    sanitize_filename(IF strip(title) = <<>> THEN Untitled ELSE strip(title)) \o L_md

failed_at(stage, filename, fs) ==
    [kind |-> "failed", stage |-> stage, filename |-> filename, files |-> fs]

\* a faulty variant: the destination is opened before the document is assembled
write_step_open_first(filename, markdown_content, fs, io) ==
    IF io[1] = "open_fails" THEN failed_at("open", filename, fs)
    ELSE IF IsRaised(markdown_content)
    THEN failed_at("assemble", filename, put(fs, filename, <<>>))
    ELSE IF io[1] = "write_fails"
    THEN failed_at("write", filename,
                   put(fs, filename, SubSeq(markdown_content, 1, io[2])))
    ELSE [kind |-> "success", stage |-> "written", filename |-> filename,
          files |-> put(fs, filename, markdown_content)]

\* a faulty variant: the destination is opened for appending
write_step_append(filename, markdown_content, fs, io) ==
    IF IsRaised(markdown_content) THEN failed_at("assemble", filename, fs)
    ELSE IF io[1] = "open_fails" THEN failed_at("open", filename, fs)
    ELSE IF io[1] = "write_fails"
    THEN failed_at("write", filename,
                   put(fs, filename, get(fs, filename, <<>>)
                                     \o SubSeq(markdown_content, 1, io[2])))
    ELSE [kind |-> "success", stage |-> "written", filename |-> filename,
          files |-> put(fs, filename, get(fs, filename, <<>>) \o markdown_content)]

\* lines 255-262: the document is assembled, then the destination opened
\* (created or truncated), then the document written
write_step(filename, markdown_content, fs, io) ==
    IF IsRaised(markdown_content)                           \* line 255
    THEN failed_at("assemble", filename, fs)
    ELSE IF io[1] = "open_fails"                            \* line 258
    THEN failed_at("open", filename, fs)
    ELSE IF io[1] = "write_fails"                           \* line 259
    THEN failed_at("write", filename,
                   put(fs, filename, SubSeq(markdown_content, 1, io[2])))
    ELSE [kind |-> "success", stage |-> "written", filename |-> filename,
          files |-> put(fs, filename, markdown_content)]

\* lines 246-262, the body of the inner try on one row: whether it ran to
\* the end or where it raised, the file name it derived, and the output
\* directory it leaves
record_step(row, fs, io) ==
    IF get(row, "title", <<>>) = None                       \* line 246
    THEN failed_at("assemble", None, fs)
    ELSE write_step(file_name(get(row, "title", <<>>)),
                    create_markdown_content(row), fs, io)

\* a faulty variant: the inner handler catches only the errors of the file system
inner_catches_os_only(stage) == stage \in {"open", "write"}

\* line 264: except Exception catches whatever the body of the try raised
inner_catches(stage) == stage \in {"assemble", "open", "write"}

\* a faulty variant: a partial failure exits like a total one
exit_status_no_partial(successful, failed) ==
    IF failed > 0 THEN 1 ELSE 0

\* lines 322-327
exit_status(successful, failed) ==
    IF failed > 0 /\ successful = 0 THEN 1
    ELSE IF failed > 0 THEN 2
    ELSE 0

Init ==
    /\ FnIdle
    /\ entry \in {"main", "convert"}
    /\ pc = entry
    /\ source \in Sources
    /\ files0 \in InitialDirs
    /\ files = files0
    /\ idx = 0
    /\ successful_conversions = 0 /\ failed_conversions = 0
    /\ created_files = <<>> /\ outcomes = <<>>
    /\ result = None /\ exit_code = <<>>

\* lines 313-316: main rejects an input path that does not exist
MainValidate ==
    /\ pc = "main"
    /\ IF source.kind = "missing"
       THEN pc' = "rejected" /\ exit_code' = <<1>>
       ELSE pc' = "convert" /\ UNCHANGED exit_code
    /\ UNCHANGED <<arg, ret, called, entry, source, files0, files, idx,
                   successful_conversions, failed_conversions, created_files,
                   outcomes, result>>

\* lines 220-241 and 269-274: the output directory is made, the input opened,
\* sniffed and counted; anything raised returns 0, 1
ConvertOpen ==
    /\ pc = "convert"
    /\ IF IsRaised(count_rows(source))
       THEN pc' = "aborted" /\ result' = <<0, 1>>
       ELSE pc' = "records" /\ UNCHANGED result
    /\ UNCHANGED <<arg, ret, called, entry, source, files0, files, idx,
                   successful_conversions, failed_conversions, created_files,
                   outcomes, exit_code>>

\* lines 244-267 (and 272-274): the reader delivers the next row and the
\* per-record step runs on it
ProcessRecord ==
    /\ pc = "records"
    /\ idx < Len(source.rows)
    /\ \E io \in IOOutcomes :
        \E step \in {record_step(dict_row(source.header, source.rows[idx + 1]),
                                 files, io)} :
            IF (idx + 1) \in source.read_error \/
               (step.kind = "failed" /\ ~inner_catches(step.stage))
            THEN \* raised outside the inner try: the outer handler returns
                 /\ pc' = "aborted" /\ result' = <<0, 1>>
                 /\ files' = IF (idx + 1) \in source.read_error
                             THEN files ELSE step.files
                 /\ UNCHANGED <<idx, successful_conversions, failed_conversions,
                                created_files, outcomes>>
            ELSE /\ idx' = idx + 1
                 /\ files' = step.files
                 /\ outcomes' = Append(outcomes,
                        [row |-> idx + 1, kind |-> step.kind, stage |-> step.stage,
                         filename |-> step.filename])
                 /\ IF step.kind = "success"
                    THEN /\ successful_conversions' = successful_conversions + 1
                         /\ created_files' = Append(created_files, step.filename)
                         /\ UNCHANGED failed_conversions
                    ELSE /\ failed_conversions' = failed_conversions + 1
                         /\ UNCHANGED <<successful_conversions, created_files>>
                 /\ UNCHANGED <<pc, result>>
    /\ UNCHANGED <<arg, ret, called, entry, source, files0, exit_code>>

\* lines 276-290: the reader is exhausted; the summary is printed and the
\* counts returned
ConvertReturn ==
    /\ pc = "records"
    /\ idx = Len(source.rows)
    /\ pc' = "done"
    /\ result' = <<successful_conversions, failed_conversions>>
    /\ UNCHANGED <<arg, ret, called, entry, source, files0, files, idx,
                   successful_conversions, failed_conversions, created_files,
                   outcomes, exit_code>>

\* lines 319-327: main exits with the status chosen from the counts returned
MainExit ==
    /\ entry = "main"
    /\ pc \in {"done", "aborted"}
    /\ exit_code = <<>>
    /\ exit_code' = <<exit_status(result[1], result[2])>>
    /\ UNCHANGED <<arg, ret, called, pc, entry, source, files0, files, idx,
                   successful_conversions, failed_conversions, created_files,
                   outcomes, result>>

Next == MainValidate \/ ConvertOpen \/ ProcessRecord \/ ConvertReturn \/ MainExit

Spec == Init /\ [][Next]_vars

-----------------------------------------------------------------------------
(* Claims about a run                                                       *)

row_at(j) == dict_row(source.header, source.rows[j])
doc_at(j) == create_markdown_content(row_at(j))
Successes == {j \in 1..Len(outcomes) : outcomes[j].kind = "success"}
Failures == {j \in 1..Len(outcomes) : outcomes[j].kind = "failed"}
\* the records that opened their destination: written, or failed in the write
Openers == {j \in 1..Len(outcomes) : outcomes[j].stage \in {"written", "write"}}
named(js, n) == {j \in js : outcomes[j].filename = n}
names_of(js) == {outcomes[j].filename : j \in js}
\* the files of the output directory that the run created or changed
Written == {n \in DOMAIN files : n \notin DOMAIN files0 \/ files[n] # files0[n]}
Unreadable(src) == src.kind # "text" \/ ~src.sniff_ok \/ src.read_error # {}
has_none(row) == \E k \in RecognizedFields : get(row, k, <<>>) = None
is_proper_prefix(p, s) == Len(p) < Len(s) /\ p = SubSeq(s, 1, Len(p))

\* C4: once the input has been opened and read, a failure in one record is
\* caught and counted as exactly one failed conversion and the batch goes
\* on: the records are processed in source order, each counted once as a
\* success or a failure, no abort follows a processed record, and at Done
\* successful + failed is the number of records.
C4_RecordFailureAbsorbed ==
    /\ pc \in {"records", "done"} =>
        /\ Len(outcomes) = idx
        /\ \A j \in 1..idx : outcomes[j].row = j
        /\ \A j \in 1..idx : has_none(row_at(j)) => j \in Failures
        /\ successful_conversions = Cardinality(Successes)
        /\ failed_conversions = Cardinality(Failures)
        /\ successful_conversions + failed_conversions = idx
    /\ pc = "done" =>
        /\ idx = Len(source.rows)
        /\ result = <<successful_conversions, failed_conversions>>
        /\ result[1] + result[2] = Len(source.rows)
    /\ pc = "aborted" => outcomes = <<>>

\* a batch ran to Done with a success after a failed record
C4_Witness ==
    /\ pc = "done"
    /\ \E j, k \in 1..Len(outcomes) :
        j < k /\ outcomes[j].stage = "assemble" /\ outcomes[k].kind = "success"

\* C5: an input that cannot be opened or read makes convert_csv_to_markdown
\* return 0, 1 with no record processed and no output file written or
\* changed; it aborts only then, before the first record.
C5_AbortOnlyOnOpen ==
    /\ pc = "aborted" =>
        /\ result = <<0, 1>>
        /\ Unreadable(source)
        /\ idx = 0 /\ outcomes = <<>> /\ created_files = <<>>
        /\ files = files0
    /\ Unreadable(source) => pc \in {"main", "convert", "rejected", "aborted"}

\* an input whose second row cannot be read aborted the batch beside an
\* existing output file
C5_Witness ==
    /\ pc = "aborted"
    /\ source.read_error = {2}
    /\ source.sniff_ok
    /\ files0 # EmptyDir

C7_AbsentFieldNoFailure ==
    \A j \in 1..Len(outcomes) :
        (\E k \in RecognizedFields :
            k \notin DOMAIN row_at(j) \/ row_at(j)[k] = None)
        => outcomes[j].stage # "assemble"

\* two or more records of the batch derived the same file name
Collision ==
    \E i, j \in 1..Len(outcomes) :
        i # j /\ outcomes[i].filename # None
        /\ outcomes[i].filename = outcomes[j].filename

\* C9: when two or more records sanitize to the same file name, each
\* successfully written one is counted as a success and at Done the file of
\* each name holds the document of the last successfully written record of
\* that name; the output files number at most the successes, and fewer when
\* written records collided.
C9_Overwrite ==
    (pc = "done" /\ Collision) =>
        /\ successful_conversions = Cardinality(Successes)
        /\ \A n \in names_of(Successes) :
               files[n] = doc_at(Max(named(Successes, n)))
        /\ Cardinality(Written) <= successful_conversions
        /\ (\E i, j \in Successes : i # j /\ outcomes[i].filename = outcomes[j].filename)
               => Cardinality(Written) < successful_conversions

\* C9 amended: when two or more records sanitize to the same file name,
\* each successfully written one is counted as a success and at Done the
\* file of each name holds what the last record that opened it left: its
\* document when it was written, a truncated prefix of its document when
\* its write failed after the open; every other file is as before the run;
\* the output files number at most the successes plus the failed writes,
\* fewer when two of those records share a name.
C9_OverwriteLastOpener ==
    (pc = "done" /\ Collision) =>
        /\ successful_conversions = Cardinality(Successes)
        /\ DOMAIN files = DOMAIN files0 \cup names_of(Openers)
        /\ \A n \in DOMAIN files \ names_of(Openers) : files[n] = files0[n]
        /\ \A n \in names_of(Openers) :
               IF Max(named(Openers, n)) \in Successes
               THEN files[n] = doc_at(Max(named(Openers, n)))
               ELSE is_proper_prefix(files[n], doc_at(Max(named(Openers, n))))
        /\ Cardinality(Written) <=
               successful_conversions + Cardinality(Openers \ Successes)
        /\ (\E i, j \in Openers : i # j /\ outcomes[i].filename = outcomes[j].filename)
               => Cardinality(Written) <
                      successful_conversions + Cardinality(Openers \ Successes)

\* two records of different documents were written under one name; the file
\* holds the later one
C9_Witness ==
    /\ pc = "done"
    /\ \E i, j \in Successes :
        /\ i < j
        /\ outcomes[i].filename = outcomes[j].filename
        /\ doc_at(i) # doc_at(j)
        /\ j = Max(named(Openers, outcomes[j].filename))
        /\ files[outcomes[j].filename] = doc_at(j)
    /\ Cardinality(Written) < successful_conversions

\* C10: a record whose field derivation or assembly fails leaves every
\* output file as it was: none is created, truncated or changed.
C10_AssemblyFailureWritesNothing ==
    [][(/\ pc = "records"
        /\ Len(outcomes') = Len(outcomes) + 1
        /\ outcomes'[Len(outcomes')].stage = "assemble")
       => files' = files]_vars

\* a record failed in assembly under the name of a file written by an
\* earlier record, which still holds that record's document
C10_Witness ==
    /\ Len(outcomes) >= 2
    /\ outcomes[Len(outcomes)].stage = "assemble"
    /\ \E i \in Successes :
        /\ outcomes[i].filename = outcomes[Len(outcomes)].filename
        /\ i = Max(named(Openers, outcomes[i].filename))
        /\ files[outcomes[i].filename] = doc_at(i)

=============================================================================
